---------------------------- MODULE Spec2Model ----------------------------
(***************************************************************************)
(* Model of src/electron/manager.ts (aw-webui): the Module class (one      *)
(* supervised child process per discovered executable) and the Manager     *)
(* class (discovery of bundled and system modules, start by name,          *)
(* two-phase autostart).                                                   *)
(*                                                                         *)
(* Left out: the --testing argument passed to every spawn (lines 11-14,   *)
(* 64-65), the forwarding of stdout and stderr (lines 71-72), the parsing  *)
(* of --autostart (lines 16-18) and findExecutable (lines 25-43), which    *)
(* nothing calls.                                                          *)
(*                                                                         *)
(* Conventions.                                                            *)
(*  - A JavaScript value that may be undefined is a sequence of length 0   *)
(*    (undefined) or 1 (the value): Module.process, Manager.modules.       *)
(*  - A file name is a sequence of tokens, so that String.includes and     *)
(*    the regular expression of discoverModules are computed by a search   *)
(*    over the name and not looked up.                                     *)
(*  - A path is the sequence of its components; path.join(dir, file) is    *)
(*    Append(dir, file).                                                   *)
(*  - `last` holds what the most recent step did that an observer can      *)
(*    see: the call, what it threw, what it printed, the spawn and the     *)
(*    signal it issued.                                                    *)
(***************************************************************************)
EXTENDS Naturals, Sequences, FiniteSets, TLC

VARIABLES
    fs,            \* the filesystem: directory path -> [status, entries]
    PATH,          \* process.env.PATH, split: a sequence of directory paths
    to_autostart,  \* Manager.to_autostart
    modules,       \* Manager.modules: <<>> (undefined) or <<list of Module>>
    inits,         \* the calls of Manager.init(): call -> its position and locals
    auto,          \* the call of Manager.autostart(): its position
    orphans,       \* child processes alive that no Module.process refers to
    uncaught,      \* an 'error' event was emitted with no listener
    spawns,        \* number of spawn() calls made (bounded)
    last           \* the observable effects of the most recent step

vars == <<fs, PATH, to_autostart, modules, inits, auto, orphans, uncaught, spawns, last>>

-----------------------------------------------------------------------------
(* Bounds *)

\* spawn() calls in one run
MaxSpawns == 2

\* calls of Manager.init()
MaxInitCalls == 2

\* length of the list given with --autostart
MaxAutostart == 3

-----------------------------------------------------------------------------
(* Names, paths and the filesystem *)

AwServer == <<"aw-server">>
AwServerRust == <<"aw-server", "-rust">>
AwWatcherAfk == <<"aw-watcher", "-afk">>
AwWatcherWindow == <<"aw-watcher", "-window">>
AwQt == <<"aw-qt">>
Notes == <<"notes", ".txt">>
Unknown == <<"aw-watcher", "-none">>

\* path.join(__static, '../modules')
bundlepath == << <<"modules">> >>
d1 == << <<"d1">> >>
d2 == << <<"d2">> >>

\* name.includes('aw-server')
IncludesAwServer(name) == \E i \in 1..Len(name) : name[i] = "aw-server"

\* file.match(/aw-(server|watcher)/)
MatchesPattern(name) == \E i \in 1..Len(name) : name[i] \in {"aw-server", "aw-watcher"}

\* a directory entry: err is the error of fs.stat on it, exec the outcome of
\* fs.access(X_OK)
File(name, exec) == [name |-> name, kind |-> "file", exec |-> exec, err |-> "none"]
Dir(name) == [name |-> name, kind |-> "dir", exec |-> TRUE, err |-> "none"]
Other(name) == [name |-> name, kind |-> "other", exec |-> FALSE, err |-> "none"]
Broken(name, err) == [name |-> name, kind |-> "file", exec |-> FALSE, err |-> err]

Listing(entries) == [status |-> "ok", entries |-> entries]
Unreadable == [status |-> "EACCES", entries |-> {}]

\* fs.readdir(dir): a directory the filesystem does not hold fails with ENOENT
DirStatus(dir) == IF dir \in DOMAIN fs THEN fs[dir].status ELSE "ENOENT"
DirEntries(dir) == IF dir \in DOMAIN fs THEN fs[dir].entries ELSE {}


-----------------------------------------------------------------------------
(* Module: constructor (lines 53-57).  `process` is not assigned: undefined *)

NewModule(name, path, type) ==
    [name |-> name, path |-> path, type |-> type, process |-> <<>>]

-----------------------------------------------------------------------------
(* Manager.discoverModules (lines 197-234)                                  *)
(*                                                                          *)
(* The call is a pure function of the filesystem apart from the order in    *)
(* which its concurrent per-file tasks complete, so it is an operator that  *)
(* yields the set of its possible results, one per completion order.  A     *)
(* result is [err, mods, logged]: err is "none" when the promise fulfils    *)
(* and the error code when it rejects, mods is the returned array, logged   *)
(* the directories console.error was called for.                            *)
(* `late` says whether the caller reads the returned array after further    *)
(* I/O waits (init reads the bundled array at line 122, after the system    *)
(* scan) or at once (lines 183 and 220): tasks still running when            *)
(* Promise.all rejected go on pushing to the array that was returned.       *)

Fulfilled(mods, logged) == [err |-> "none", mods |-> mods, logged |-> logged]
Rejected(err) == [err |-> err, mods |-> <<>>, logged |-> {}]

\* the completion orders of a set of concurrent tasks
Orders(S) ==
    {p \in [1..Cardinality(S) -> S] : \A i, j \in 1..Cardinality(S) : p[i] = p[j] => i = j}

\* the modules pushed by the first n tasks of a run, in push order
RECURSIVE Pushed(_, _)
Pushed(run, n) ==
    IF n = 0 THEN <<>> ELSE Pushed(run, n - 1) \o run[n].mods

LoggedBy(run, n) == UNION {run[i].logged : i \in 1..n}

\* the first task of a run that rejects, 0 if none does
FirstRejection(run) ==
    IF \E i \in 1..Len(run) : run[i].err # "none"
    THEN CHOOSE i \in 1..Len(run) :
            run[i].err # "none" /\ \A j \in 1..(i - 1) : run[j].err = "none"
    ELSE 0

\* ReaddirFailed without the try of line 200: the failure rejects the scan
ReaddirRethrown(dir, code) == Rejected(code)

\* catch (err) of lines 226-232, for readdir failing with `code`
ReaddirFailed(dir, code) ==
    IF code = "ENOENT" THEN Fulfilled(<<>>, {}) ELSE Fulfilled(<<>>, {dir})

\* lines 202-233 for one completion order and its tasks' outcomes
ResultsOfRun(dir, run, late) ==
    LET f == FirstRejection(run)
        n == Len(run)
    IN  IF f = 0
        THEN {Fulfilled(Pushed(run, n), LoggedBy(run, n))}
        ELSE IF run[f].err = "ENOENT"
        THEN {Fulfilled(<<>>, LoggedBy(run, f))}
        ELSE {Fulfilled(Pushed(run, k), LoggedBy(run, k) \cup {dir}) :
                k \in (IF late THEN f..n ELSE {f})}

RECURSIVE discoverModules(_, _, _)
RECURSIVE TaskOutcomes(_, _, _)
RECURSIVE Runs(_, _, _, _)

\* FileTask without fs.access: every regular file is pushed
FileTaskNoAccess(e, filepath, type) == <<NewModule(e.name, filepath, type)>>

\* lines 208-217, a regular file: what the task pushes to modules
FileTask(e, filepath, type) ==
    IF e.exec THEN <<NewModule(e.name, filepath, type)>> ELSE <<>>

\* Descend without the recursive call: a directory yields nothing
DescendNever(filepath, type) == {Fulfilled(<<>>, {})}

\* lines 218-220, a directory: the modules of the recursive scan are pushed
Descend(filepath, type) ==
    {IF r.err = "none" THEN r ELSE Rejected(r.err) :
        r \in discoverModules(filepath, type, FALSE)}

\* the task of one matching directory entry (lines 205-224)
TaskOutcomes(dir, e, type) ==
    LET filepath == Append(dir, e.name)
    IN  IF e.err # "none" THEN {Rejected(e.err)}
        ELSE IF e.kind = "file" THEN {Fulfilled(FileTask(e, filepath, type), {})}
        ELSE IF e.kind = "dir" THEN Descend(filepath, type)
        ELSE {Fulfilled(<<>>, {})}

\* the outcomes of the first n tasks of completion order p
Runs(dir, type, p, n) ==
    IF n = 0 THEN {<<>>}
    ELSE {Append(r, o) : r \in Runs(dir, type, p, n - 1), o \in TaskOutcomes(dir, p[n], type)}

discoverModules(dir, type, late) ==
    IF DirStatus(dir) # "ok" THEN {ReaddirFailed(dir, DirStatus(dir))}
    ELSE LET files == {e \in DirEntries(dir) : MatchesPattern(e.name)}
         IN  UNION {UNION {ResultsOfRun(dir, run, late) : run \in Runs(dir, type, p, Len(p))} :
                        p \in Orders(files)}

\* Manager.discoverBundledModules (lines 168-173)
discoverBundledModules == discoverModules(bundlepath, "bundled", TRUE)

\* MergeFound without the test of line 185: every found module is pushed
MergeFoundAll(mods, foundModules) == mods \o foundModules

\* lines 183-188: only add a module if one with the same name is not already found
RECURSIVE MergeFound(_, _)
MergeFound(mods, foundModules) ==
    IF foundModules = <<>> THEN mods
    ELSE LET m == Head(foundModules)
         IN  MergeFound(IF m.name \in {mods[i].name : i \in 1..Len(mods)}
                        THEN mods ELSE Append(mods, m),
                        Tail(foundModules))

\* JoinModules with the system modules deduplicated against the bundled ones too
JoinModulesDeduplicated(modulesBundled, modulesSystem) ==
    MergeFound(modulesBundled, modulesSystem)

\* line 122
JoinModules(modulesBundled, modulesSystem) == modulesBundled \o modulesSystem


-----------------------------------------------------------------------------
(* What a step shows to an observer *)

\* op: the call or event; mod: the Module (its index in this.modules) or the
\* init call it is about; threw: the exception that left the call; reports: what
\* it printed; spawned: the path spawn() was called with; outcome: how that
\* spawn ended; signalled: a signal was sent to a process; wasRunning, wasAlive:
\* running() and the state of the child process when the call began; toggles,
\* first: the toggle() calls made in a row on Module mod, counted in pairs (1:
\* the first call of a pair, 2: the second), and what running() gave before the
\* first call of the pair; dir, found: the directory whose scan resolved and
\* the array it resolved with
Quiet ==
    [op |-> "none", mod |-> 0, name |-> <<>>, threw |-> "none", reports |-> {},
     spawned |-> <<>>, outcome |-> "none", signalled |-> FALSE,
     wasRunning |-> "n/a", wasAlive |-> FALSE, toggles |-> 0, first |-> "n/a",
     dir |-> <<>>, found |-> <<>>]

-----------------------------------------------------------------------------
(* Manager.init (lines 109-123)                                             *)

InitCalls == 1..MaxInitCalls

NotCalled == [pc |-> "idle", modulesBundled |-> <<>>, modules |-> <<>>, scanned |-> {}]

\* the child processes of `mods` that are alive
Alive(mods) == {i \in 1..Len(mods) : mods[i].process # <<>> /\ mods[i].process[1].alive}

\* the Modules the manager holds; none while this.modules is undefined
Mods == IF modules = <<>> THEN <<>> ELSE modules[1]

\* lines 113-119: the guard, then the call of discoverBundledModules
InitCall(c) ==
    /\ inits[c].pc = "idle"
    /\ \A b \in 1..(c - 1) : inits[b].pc # "idle"
    /\ auto.pc \notin {"A", "B"}
    /\ IF modules # <<>>
       THEN /\ inits' = [inits EXCEPT ![c].pc = "refused"]
            /\ last' = [Quiet EXCEPT !.op = "init", !.mod = c, !.reports = {"init_once"}]
       ELSE /\ inits' = [inits EXCEPT ![c].pc = "bundled"]
            /\ last' = [Quiet EXCEPT !.op = "init", !.mod = c]
    /\ UNCHANGED <<fs, PATH, to_autostart, modules, auto, orphans, uncaught, spawns>>

\* lines 119-121: discoverBundledModules resolves, discoverSystemModules starts
\* one scan per entry of PATH (lines 177-181)
BundledDone(c) ==
    /\ inits[c].pc = "bundled"
    /\ auto.pc \notin {"A", "B"}
    /\ \E r \in discoverBundledModules :
        /\ inits' = [inits EXCEPT ![c] =
                        IF r.err = "none"
                        THEN [pc |-> "system", modulesBundled |-> r.mods,
                              modules |-> <<>>, scanned |-> {}]
                        ELSE [@ EXCEPT !.pc = "rejected"]]
        /\ last' = [Quiet EXCEPT !.op = "bundled", !.mod = c,
                        !.dir = bundlepath, !.found = r.mods, !.threw = r.err,
                        !.reports = IF r.logged = {} THEN {} ELSE {"discovery_error"}]
    /\ UNCHANGED <<fs, PATH, to_autostart, modules, auto, orphans, uncaught, spawns>>

\* lines 181-189: the scan of PATH[k] resolves and its modules are merged; with
\* the last scan Promise.all resolves and line 122 assigns this.modules
ScanDone(c, k) ==
    /\ inits[c].pc = "system"
    /\ k \in (1..Len(PATH)) \ inits[c].scanned
    /\ auto.pc \notin {"A", "B"}
    /\ \E r \in discoverModules(PATH[k], "system", FALSE) :
        LET merged == MergeFound(inits[c].modules, r.mods)
            scanned == inits[c].scanned \cup {k}
            all == scanned = 1..Len(PATH)
        IN  /\ last' = [Quiet EXCEPT !.op = "scan", !.mod = c,
                            !.dir = PATH[k], !.found = r.mods, !.threw = r.err,
                            !.reports = IF r.logged = {} THEN {} ELSE {"discovery_error"}]
            /\ IF r.err # "none"
               THEN /\ inits' = [inits EXCEPT ![c].pc = "rejected"]
                    /\ UNCHANGED <<modules, orphans>>
               ELSE /\ inits' = [inits EXCEPT ![c].modules = merged,
                                              ![c].scanned = scanned,
                                              ![c].pc = IF all THEN "done" ELSE "system"]
                    /\ IF all
                       THEN /\ modules' = <<JoinModules(inits[c].modulesBundled, merged)>>
                            /\ orphans' = orphans + Cardinality(Alive(Mods))
                       ELSE UNCHANGED <<modules, orphans>>
    /\ UNCHANGED <<fs, PATH, to_autostart, auto, uncaught, spawns>>


-----------------------------------------------------------------------------
(* Module (lines 47-99)                                                     *)
(*                                                                          *)
(* A ChildProcess is [alive, signalCode, exitCode, killed]: alive while the *)
(* operating system has not reported its exit, killed once kill() has sent  *)
(* it a signal.  Node sets signalCode when the process was terminated by a  *)
(* signal and exitCode otherwise; both are null until then.                 *)

ChildProcess == [alive |-> TRUE, signalCode |-> "null", exitCode |-> "null", killed |-> FALSE]

\* spawn() of a path that cannot be executed returns a ChildProcess all the
\* same and emits 'error' on it on the next tick
FailedChildProcess ==
    [alive |-> FALSE, signalCode |-> "null", exitCode |-> "ENOENT", killed |-> FALSE]

\* how a call of spawn() can end: the child runs ("ok"), the executable is
\* missing or not permitted ("error": the 'error' event), or spawn() itself
\* throws ("throw")
SpawnOutcomes == {"ok", "error", "throw"}

IsAlive(m) == m.process # <<>> /\ m.process[1].alive

\* the effects of a call on Module m: lost counts the live processes whose
\* handle the call overwrote
NoEffect(m) ==
    [m |-> m, threw |-> "none", reports |-> {}, spawned |-> <<>>, outcome |-> "none",
     signalled |-> FALSE, lost |-> 0, uncaught |-> FALSE]

\* Module.running (lines 95-98): reading signalCode of undefined is a TypeError
running(m) ==
    IF m.process = <<>> THEN "TypeError"
    ELSE IF m.process[1].signalCode = "null" THEN "true" ELSE "false"

\* Module.start (lines 59-76).  No listener is registered for 'error', so the
\* event of a failed spawn is an uncaught exception of the supervisor.
start(m, outcome) ==
    LET lost == IF IsAlive(m) THEN 1 ELSE 0
        called == [NoEffect(m) EXCEPT !.spawned = <<m.path>>, !.outcome = outcome]
    IN  CASE outcome = "ok" ->
                [called EXCEPT !.m.process = <<ChildProcess>>, !.lost = lost]
          [] outcome = "error" ->
                [called EXCEPT !.m.process = <<FailedChildProcess>>, !.lost = lost,
                               !.uncaught = TRUE]
          [] OTHER ->
                [called EXCEPT !.reports = {"spawn_error"}]

\* ChildProcess.kill(): sends the signal while the process has not exited
kill(m) ==
    IF m.process[1].alive
    THEN [NoEffect(m) EXCEPT !.m.process[1].killed = TRUE, !.signalled = TRUE]
    ELSE NoEffect(m)

\* Module.stop (lines 78-85)
stop(m) ==
    CASE running(m) = "TypeError" -> [NoEffect(m) EXCEPT !.threw = "TypeError"]
      [] running(m) = "true" -> kill(m)
      [] OTHER -> [NoEffect(m) EXCEPT !.reports = {"warn_not_running"}]

\* Module.toggle (lines 87-93)
toggle(m, outcome) ==
    CASE running(m) = "TypeError" -> [NoEffect(m) EXCEPT !.threw = "TypeError"]
      [] running(m) = "true" -> stop(m)
      [] OTHER -> start(m, outcome)

-----------------------------------------------------------------------------
(* Manager.start (lines 125-137)                                            *)

Least(S) == CHOOSE i \in S : \A j \in S : i <= j

\* FindModule with the filter of line 130 on the other type
FindModuleSystemFirst(mods, name) ==
    LET system == {i \in 1..Len(mods) : mods[i].type = "system" /\ mods[i].name = name}
        any == {i \in 1..Len(mods) : mods[i].name = name}
    IN  IF system # {} THEN Least(system)
        ELSE IF any # {} THEN Least(any)
        ELSE 0

\* lines 129-131: the index of the Module chosen for `name`, 0 if there is none
FindModule(mods, name) ==
    LET bundled == {i \in 1..Len(mods) : mods[i].type = "bundled" /\ mods[i].name = name}
        any == {i \in 1..Len(mods) : mods[i].name = name}
    IN  IF bundled # {} THEN Least(bundled)
        ELSE IF any # {} THEN Least(any)
        ELSE 0

\* StartFound without the test of line 132: start is called on undefined
StartFoundUnchecked(mods, i, outcome) ==
    IF i # 0 THEN start(mods[i], outcome)
    ELSE [NoEffect(<<>>) EXCEPT !.threw = "TypeError"]

\* lines 132-136, for the Module found at index i
StartFound(mods, i, outcome) ==
    IF i # 0 THEN start(mods[i], outcome)
    ELSE [NoEffect(<<>>) EXCEPT !.reports = {"could_not_start"}]

-----------------------------------------------------------------------------
(* The calls a user of the two classes makes, and the events of the child   *)
(* processes.  Calls on a Module need the Module, hence this.modules; the   *)
(* callers of Manager.start and Manager.autostart await init first.         *)

Ready == modules # <<>> /\ auto.pc \notin {"A", "B"}

\* the step of a call `op` on Module i (0: no Module) with effects e
Shown(op, i, name, e) ==
    [Quiet EXCEPT !.op = op, !.mod = i, !.name = name, !.threw = e.threw,
                  !.reports = e.reports, !.spawned = e.spawned, !.outcome = e.outcome,
                  !.signalled = e.signalled,
                  !.wasRunning = IF i = 0 THEN "n/a" ELSE running(Mods[i]),
                  !.wasAlive = i # 0 /\ IsAlive(Mods[i])]

Apply(i, e) ==
    /\ e.spawned # <<>> => spawns < MaxSpawns
    /\ modules' = IF i = 0 THEN modules ELSE <<[Mods EXCEPT ![i] = e.m]>>
    /\ orphans' = orphans + e.lost
    /\ uncaught' = (uncaught \/ e.uncaught)
    /\ spawns' = IF e.spawned # <<>> THEN spawns + 1 ELSE spawns

ModuleStart(i) ==
    /\ Ready
    /\ i \in 1..Len(Mods)
    /\ \E outcome \in SpawnOutcomes :
        LET e == start(Mods[i], outcome)
        IN  Apply(i, e) /\ last' = Shown("Module.start", i, Mods[i].name, e)
    /\ UNCHANGED <<fs, PATH, to_autostart, inits, auto>>

ModuleStop(i) ==
    /\ Ready
    /\ i \in 1..Len(Mods)
    /\ LET e == stop(Mods[i])
       IN  Apply(i, e) /\ last' = Shown("Module.stop", i, Mods[i].name, e)
    /\ UNCHANGED <<fs, PATH, to_autostart, inits, auto>>

ModuleToggle(i) ==
    /\ Ready
    /\ i \in 1..Len(Mods)
    /\ \E outcome \in SpawnOutcomes :
        LET e == toggle(Mods[i], outcome)
            again == last.mod = i /\ last.toggles = 1
        IN  /\ Apply(i, e)
            /\ last' = [Shown("Module.toggle", i, Mods[i].name, e) EXCEPT
                            !.toggles = IF again THEN last.toggles + 1 ELSE 1,
                            !.first = IF again THEN last.first ELSE running(Mods[i])]
    /\ UNCHANGED <<fs, PATH, to_autostart, inits, auto>>

ManagerStart(name) ==
    /\ Ready
    /\ \E outcome \in SpawnOutcomes :
        LET i == FindModule(Mods, name)
            e == StartFound(Mods, i, outcome)
        IN  /\ Apply(i, e)
            /\ last' = Shown("Manager.start", i, name, e)
    /\ UNCHANGED <<fs, PATH, to_autostart, inits, auto>>

\* how a child process can end: with an exit code, or terminated by a signal
\* (the one kill() sent, or one from outside)
Exits == {"0", "SIGTERM"}

Exited(h, how) ==
    IF how = "SIGTERM"
    THEN [h EXCEPT !.alive = FALSE, !.killed = FALSE, !.signalCode = how]
    ELSE [h EXCEPT !.alive = FALSE, !.killed = FALSE, !.exitCode = how]

\* the child process of Module i exits; the 'close' listener (lines 68-70)
\* prints its code.  The exit that follows this Module's own kill() leaves a
\* run of toggle() calls on it uninterrupted.
ProcessExit(i) ==
    /\ auto.pc \notin {"A", "B"}
    /\ i \in 1..Len(Mods)
    /\ IsAlive(Mods[i])
    /\ \E how \in Exits :
        /\ modules' = <<[Mods EXCEPT ![i].process = <<Exited(Mods[i].process[1], how)>>]>>
        /\ last' = [Quiet EXCEPT !.op = "exit", !.mod = i, !.name = Mods[i].name,
                        !.reports = {"exited"}, !.outcome = how,
                        !.wasRunning = running(Mods[i]), !.wasAlive = TRUE,
                        !.toggles = IF last.mod = i /\ Mods[i].process[1].killed
                                    THEN last.toggles ELSE 0,
                        !.first = IF last.mod = i /\ Mods[i].process[1].killed
                                  THEN last.first ELSE "n/a"]
    /\ UNCHANGED <<fs, PATH, to_autostart, inits, auto, orphans, uncaught, spawns>>

\* a child process that no Module refers to any more exits
OrphanExit ==
    /\ auto.pc \notin {"A", "B"}
    /\ orphans > 0
    /\ orphans' = orphans - 1
    /\ last' = [Quiet EXCEPT !.op = "exit", !.reports = {"exited"}]
    /\ UNCHANGED <<fs, PATH, to_autostart, modules, inits, auto, uncaught, spawns>>


-----------------------------------------------------------------------------
(* Manager.autostart (lines 139-166)                                        *)
(*                                                                          *)
(* auto.issued lists the positions of to_autostart whose start call has     *)
(* been made, in call order, and auto.began how many of them were made      *)
(* before the current batch; auto.settled holds those whose promise has     *)
(* settled and auto.rejected those whose call threw, which rejects the      *)
(* promise of the async Manager.start.  Module.start is synchronous, so every promise of the call      *)
(* settles in microtasks: no event of a child process and no other call     *)
(* runs between the steps of one autostart.                                 *)

NotStarted == [pc |-> "idle", issued |-> <<>>, began |-> 0, settled |-> {}, rejected |-> {}]

Positions == 1..Len(to_autostart)

\* Rest without the filter of line 161: the second batch is the whole list
RestUnfiltered == Positions

\* lines 152 and 161: the two filters
Servers == {p \in Positions : IncludesAwServer(to_autostart[p])}
Rest == {p \in Positions : ~IncludesAwServer(to_autostart[p])}
Batch(pc) == IF pc = "A" THEN Servers ELSE Rest

Issued == {auto.issued[k] : k \in 1..Len(auto.issued)}

\* the positions the map of the current batch has called start for
IssuedNow == {auto.issued[k] : k \in (auto.began + 1)..Len(auto.issued)}

\* BatchSettled with Promise.all not awaited: the calls are made, not settled
BatchIssued(batch) == batch \subseteq Issued

\* await Promise.all(...) of lines 150 and 159: every promise of the batch settled
BatchSettled(batch) == batch \subseteq auto.settled

\* AutostartCall without the test of line 143: the batches begin at once
AutostartCallUnguarded ==
    /\ Ready
    /\ auto.pc = "idle"
    /\ auto' = [auto EXCEPT !.pc = "A"]
    /\ last' = [Quiet EXCEPT !.op = "autostart"]
    /\ UNCHANGED <<fs, PATH, to_autostart, modules, inits, orphans, uncaught, spawns>>

\* lines 143-147
AutostartCall ==
    /\ Ready
    /\ auto.pc = "idle"
    /\ IF Len(to_autostart) = 0
       THEN /\ auto' = [auto EXCEPT !.pc = "done"]
            /\ last' = [Quiet EXCEPT !.op = "autostart", !.reports = {"no_autostart"}]
       ELSE /\ auto' = [auto EXCEPT !.pc = "A"]
            /\ last' = [Quiet EXCEPT !.op = "autostart"]
    /\ UNCHANGED <<fs, PATH, to_autostart, modules, inits, orphans, uncaught, spawns>>

\* lines 153-155 and 162-164: map calls this.start for the next name of the batch
AutostartIssue ==
    /\ auto.pc \in {"A", "B"}
    /\ Batch(auto.pc) \ IssuedNow # {}
    /\ LET p == Least(Batch(auto.pc) \ IssuedNow)
           i == FindModule(Mods, to_autostart[p])
       IN  /\ \E outcome \in SpawnOutcomes :
                LET e == StartFound(Mods, i, outcome)
                IN  /\ Apply(i, e)
                    /\ last' = Shown("Manager.start", i, to_autostart[p], e)
                    /\ auto' = [auto EXCEPT !.issued = Append(@, p),
                                !.rejected = IF e.threw # "none" THEN @ \cup {p} ELSE @]
    /\ UNCHANGED <<fs, PATH, to_autostart, inits>>

\* the promise of one start call of the batch settles
AutostartSettle(p) ==
    /\ auto.pc \in {"A", "B"}
    /\ Batch(auto.pc) \subseteq IssuedNow
    /\ p \in Batch(auto.pc) \ auto.settled
    /\ auto' = [auto EXCEPT !.settled = @ \cup {p}]
    /\ last' = [Quiet EXCEPT !.op = "settle", !.name = to_autostart[p]]
    /\ UNCHANGED <<fs, PATH, to_autostart, modules, inits, orphans, uncaught, spawns>>

\* Promise.all resolves: the second batch begins, or autostart returns; it
\* rejects with the first rejected promise, and autostart rejects with it
AutostartAwait ==
    /\ auto.pc \in {"A", "B"}
    /\ Batch(auto.pc) \subseteq IssuedNow
    /\ LET failed == Batch(auto.pc) \cap auto.rejected \cap auto.settled
       IN  /\ failed # {} \/ BatchSettled(Batch(auto.pc))
           /\ auto' = [auto EXCEPT !.pc = IF failed # {} THEN "rejected"
                                          ELSE IF auto.pc = "A" THEN "B" ELSE "done",
                                    !.began = IF failed = {} /\ auto.pc = "A"
                                              THEN Len(auto.issued) ELSE @]
    /\ last' = [Quiet EXCEPT !.op = "autostart"]
    /\ UNCHANGED <<fs, PATH, to_autostart, modules, inits, orphans, uncaught, spawns>>

-----------------------------------------------------------------------------
(* The filesystems and autostart lists of the runs                          *)

\* the end-to-end scenario: a bundled aw-server, and one PATH directory with
\* aw-server and aw-watcher-window; a second PATH entry does not exist
EndToEnd ==
    [fs |-> (bundlepath :> Listing({File(AwServer, TRUE)}))
            @@ (d1 :> Listing({File(AwServer, TRUE), File(AwWatcherWindow, TRUE)})),
     PATH |-> <<d1, d2>>]

\* no bundle; the same executable in two PATH directories
TwoDirs ==
    [fs |-> (d1 :> Listing({File(AwServer, TRUE)}))
            @@ (d2 :> Listing({File(AwServer, TRUE), File(AwWatcherAfk, TRUE)})),
     PATH |-> <<d1, d2>>]

\* a setup: a filesystem, a PATH and the list given with --autostart
Setup(s, list) == [fs |-> s.fs, PATH |-> s.PATH, to_autostart |-> list]

Setups ==
    {Setup(EndToEnd, <<AwServer, AwWatcherWindow>>),
     Setup(TwoDirs, <<AwWatcherAfk, Unknown, AwServer>>),
     Setup(TwoDirs, <<>>)}

\* the names start is called with
Names == {AwServer, AwWatcherWindow, Unknown}

Init ==
    /\ \E r \in Setups : fs = r.fs /\ PATH = r.PATH /\ to_autostart = r.to_autostart
    /\ modules = <<>>
    /\ inits = [c \in InitCalls |-> NotCalled]
    /\ auto = NotStarted
    /\ orphans = 0
    /\ uncaught = FALSE
    /\ spawns = 0
    /\ last = Quiet

\* init is called again only once the first call has returned
Next ==
    \/ \E c \in InitCalls : (c = 1 \/ modules # <<>>) /\ InitCall(c)
    \/ BundledDone(1)
    \/ \E k \in 1..Len(PATH) : ScanDone(1, k)
    \/ \E i \in 1..Len(Mods) : ModuleStart(i)
    \/ \E i \in 1..Len(Mods) : ModuleStop(i)
    \/ \E i \in 1..Len(Mods) : ModuleToggle(i)
    \/ \E name \in Names : ManagerStart(name)
    \/ \E i \in 1..Len(Mods) : ProcessExit(i)
    \/ OrphanExit
    \/ AutostartCall
    \/ AutostartIssue
    \/ \E p \in Positions : AutostartSettle(p)
    \/ AutostartAwait

Spec == Init /\ [][Next]_vars


-----------------------------------------------------------------------------
(* One discovery pass over a wider set of filesystems                       *)

NoDir == [d \in {} |-> d]

\* what a directory can hold
Contents(dir) ==
    {NoDir,
     dir :> Unreadable,
     dir :> Listing({File(AwServer, TRUE)}),
     dir :> Listing({File(AwServer, TRUE), File(AwWatcherWindow, TRUE)}),
     dir :> Listing({File(AwServer, FALSE), File(Notes, TRUE), File(AwQt, TRUE)}),
     (dir :> Listing({Dir(AwWatcherAfk), File(AwServer, TRUE)}))
        @@ (Append(dir, AwWatcherAfk)
                :> Listing({File(AwServer, TRUE), File(AwWatcherAfk, TRUE)})),
     dir :> Listing({File(AwServer, TRUE), Broken(AwWatcherAfk, "EACCES")}),
     dir :> Listing({File(AwServer, TRUE), Broken(AwWatcherAfk, "ENOENT")}),
     dir :> Listing({Other(AwWatcherAfk), File(AwServerRust, TRUE)}),
     (dir :> Listing({Dir(AwQt), File(AwServer, TRUE)}))
        @@ (Append(dir, AwQt) :> Listing({File(AwWatcherAfk, TRUE)}))}

InitDiscovery ==
    /\ \E b \in Contents(bundlepath), c1 \in Contents(d1), c2 \in Contents(d2) :
            fs = b @@ c1 @@ c2
    /\ PATH \in {<<d1, d2>>, <<d1, d1>>}
    /\ to_autostart = <<>>
    /\ modules = <<>>
    /\ inits = [c \in InitCalls |-> NotCalled]
    /\ auto = NotStarted
    /\ orphans = 0
    /\ uncaught = FALSE
    /\ spawns = 0
    /\ last = Quiet

NextDiscovery ==
    \/ InitCall(1)
    \/ BundledDone(1)
    \/ \E k \in 1..Len(PATH) : ScanDone(1, k)

SpecDiscovery == InitDiscovery /\ [][NextDiscovery]_vars


-----------------------------------------------------------------------------
(* Calls of init that overlap: a call may be made while an earlier one is   *)
(* waiting for its discovery (every step of init after line 113 is behind   *)
(* an await), on the filesystems of the lifecycle runs.                     *)

NextInit ==
    \/ \E c \in InitCalls : InitCall(c)
    \/ \E c \in InitCalls : BundledDone(c)
    \/ \E c \in InitCalls : \E k \in 1..Len(PATH) : ScanDone(c, k)

SpecInit == Init /\ [][NextInit]_vars

-----------------------------------------------------------------------------
(* One call of autostart, after init, over every short list of names        *)

AutostartNames == {AwServer, AwServerRust, AwWatcherAfk, Unknown}

AutostartLists == UNION {[1..n -> AutostartNames] : n \in 0..MaxAutostart}

InitAutostart ==
    /\ \E s \in {EndToEnd, TwoDirs} : fs = s.fs /\ PATH = s.PATH
    /\ to_autostart \in AutostartLists
    /\ modules = <<>>
    /\ inits = [c \in InitCalls |-> NotCalled]
    /\ auto = NotStarted
    /\ orphans = 0
    /\ uncaught = FALSE
    /\ spawns = 0
    /\ last = Quiet

NextAutostart ==
    \/ InitCall(1)
    \/ BundledDone(1)
    \/ \E k \in 1..Len(PATH) : ScanDone(1, k)
    \/ AutostartCall
    \/ AutostartIssue
    \/ \E p \in Positions : AutostartSettle(p)
    \/ AutostartAwait

SpecAutostart == InitAutostart /\ [][NextAutostart]_vars

-----------------------------------------------------------------------------
(* Properties                                                               *)

\* the first call of init has assigned this.modules
Done == inits[1].pc = "done"

\* dir lists, and each of its entries that discoverModules looks at stats
Clean(dir) == DirStatus(dir) = "ok" /\ \A e \in DirEntries(dir) : e.err = "none"

\* the names of the executable regular files of dir that match the pattern
Executables(dir) ==
    {e.name : e \in {x \in DirEntries(dir) :
                        x.kind = "file" /\ x.exec /\ x.err = "none" /\ MatchesPattern(x.name)}}

Under(path, dir) == Len(path) > Len(dir) /\ SubSeq(path, 1, Len(dir)) = dir

Named(type, name) == {i \in 1..Len(Mods) : Mods[i].type = type /\ Mods[i].name = name}

KillPending(m) == IsAlive(m) /\ m.process[1].killed

\* C1: during autostart no start call is made for a name without 'aw-server'
\* until the start call of every name with 'aw-server' has been made and has
\* settled.
ServersSettleBeforeRest ==
    \A k \in 1..Len(auto.issued) :
        auto.issued[k] \in Rest =>
            \A p \in Servers :
                /\ p \in auto.settled
                /\ \E j \in 1..(k - 1) : auto.issued[j] = p

ServersSettleBeforeRestWitness ==
    /\ auto.pc = "B"
    /\ Servers # {}
    /\ \E k \in 1..Len(auto.issued) : auto.issued[k] \in Rest

FirstPathEntryWins ==
    (Done /\ Len(PATH) = 2 /\ PATH[1] # PATH[2] /\ Clean(PATH[1]) /\ Clean(PATH[2])) =>
        \A X \in Executables(PATH[1]) \cap Executables(PATH[2]) :
            /\ Cardinality(Named("system", X)) = 1
            /\ \A i \in Named("system", X) : Under(Mods[i].path, PATH[1])

\* C4: stop on a Module whose process is not alive (never started, or exited)
\* does not throw, sends no signal, prints the warning and leaves it stopped.
StopOnStoppedWarns ==
    (last.op = "Module.stop" /\ ~last.wasAlive) =>
        /\ last.threw = "none"
        /\ ~last.signalled
        /\ "warn_not_running" \in last.reports
        /\ ~IsAlive(Mods[last.mod])

\* C5: after two toggle() calls in a row on a Module, with nothing else
\* happening to it but the exit its own kill() causes, running() returns what
\* it returned before the first call.
ToggleTwiceRestores ==
    (last.toggles = 2 /\ ~KillPending(Mods[last.mod])) =>
        /\ last.first \in {"true", "false"}
        /\ running(Mods[last.mod]) = last.first

\* C6: when spawn fails, the failure is reported, running() of the Module is
\* false afterwards and the supervisor has no uncaught exception.
SpawnFailureLeavesStopped ==
    (last.op \in {"Module.start", "Module.toggle", "Manager.start"}
        /\ last.outcome \in {"error", "throw"}) =>
        /\ "spawn_error" \in last.reports
        /\ running(Mods[last.mod]) = "false"
        /\ ~uncaught

\* C7: once the process of a started Module has exited, with an exit code or
\* by a signal, running() returns false, and the exit is reported.
ExitedIsNotRunning ==
    /\ \A i \in 1..Len(Mods) :
            (Mods[i].process # <<>> /\ ~Mods[i].process[1].alive
                /\ Mods[i].process[1].exitCode # "ENOENT") =>
                running(Mods[i]) = "false"
    /\ last.op = "exit" => "exited" \in last.reports

\* C8: after discovery the process handle of every Module is non-null iff its
\* process is running.
HandleIffRunning ==
    \A i \in 1..Len(Mods) : (Mods[i].process # <<>>) <=> IsAlive(Mods[i])

\* C9: the scan of a directory that does not exist resolves with an empty
\* array, prints no error and rejects nothing, and init completes with the
\* modules of the other directories.
MissingDirectoryIsEmpty ==
    /\ \A c \in InitCalls : inits[c].pc # "rejected"
    /\ (last.op \in {"bundled", "scan"} /\ DirStatus(last.dir) = "ENOENT") =>
            /\ last.found = <<>>
            /\ last.threw = "none"
            /\ last.reports = {}
    /\ Done =>
            /\ Clean(bundlepath) =>
                \A X \in Executables(bundlepath) :
                    \E i \in Named("bundled", X) : Mods[i].path = Append(bundlepath, X)
            /\ \A k \in 1..Len(PATH) : Clean(PATH[k]) =>
                \A X \in Executables(PATH[k]) : Named("system", X) # {}

MissingDirectoryIsEmptyWitness ==
    /\ Done
    /\ DirStatus(bundlepath) = "ENOENT"
    /\ DirStatus(PATH[1]) = "ENOENT"
    /\ PATH[2] # PATH[1]
    /\ Len(Mods) > 0

\* C10: after init this.modules is the bundled Modules followed by the
\* deduplicated system Modules, a bundled and a system Module of one name are
\* both kept, and the end-to-end scenario gives 3 modules, the bundled one first.
BundledThenSystem ==
    Done =>
        /\ Mods = inits[1].modulesBundled \o inits[1].modules
        /\ \A i \in 1..Len(inits[1].modulesBundled) : Mods[i].type = "bundled"
        /\ \A i \in (Len(inits[1].modulesBundled) + 1)..Len(Mods) : Mods[i].type = "system"
        /\ \A k \in 1..Len(PATH) : Clean(PATH[k]) /\ Clean(bundlepath) =>
                \A X \in Executables(PATH[k]) \cap Executables(bundlepath) :
                    Named("bundled", X) # {} /\ Named("system", X) # {}
        /\ (fs = EndToEnd.fs /\ PATH = EndToEnd.PATH) =>
                /\ Len(Mods) = 3
                /\ Mods[1] = NewModule(AwServer, Append(bundlepath, AwServer), "bundled")
                /\ {Mods[2], Mods[3]} =
                        {NewModule(AwServer, Append(d1, AwServer), "system"),
                         NewModule(AwWatcherWindow, Append(d1, AwWatcherWindow), "system")}

BundledThenSystemWitness ==
    /\ Done
    /\ fs = EndToEnd.fs
    /\ PATH = EndToEnd.PATH
    /\ Len(Mods) = 3


\* C11: at every point of a discovery pass, and in its result, no two system
\* Modules have the same name, whatever the directories of PATH hold and in
\* whatever order their scans resolve.
SystemNamesDistinct ==
    /\ \A c \in InitCalls : \A i, j \in 1..Len(inits[c].modules) :
            inits[c].modules[i].name = inits[c].modules[j].name => i = j
    /\ \A i, j \in 1..Len(Mods) :
            (Mods[i].type = "system" /\ Mods[j].type = "system"
                /\ Mods[i].name = Mods[j].name) => i = j

SystemNamesDistinctWitness ==
    /\ Done
    /\ \E k \in 1..Len(PATH) :
            /\ AwServer \in Executables(PATH[k])
            /\ AwServer \in Executables(Append(PATH[k], AwWatcherAfk))
    /\ AwServer \in Executables(PATH[2])
    /\ Cardinality(Named("system", AwServer)) = 1


Discovering == {c \in InitCalls : inits[c].pc \in {"bundled", "system", "done", "rejected"}}

\* the directory of a path, and the entry of that directory the path names
Dirname(path) == SubSeq(path, 1, Len(path) - 1)
Basename(path) == path[Len(path)]

\* C13: every Module a scan returns, and every Module of the registry, has
\* the path of a directory entry that is a regular file, has a name matching
\* the pattern and passed the X_OK access test, and is named after it; files
\* that are not executable or do not match never produce a Module.
OnlyExecutableMatchingFiles ==
    LET FromFile(m) ==
            /\ Len(m.path) > 1
            /\ m.name = Basename(m.path)
            /\ MatchesPattern(m.name)
            /\ \E e \in DirEntries(Dirname(m.path)) :
                    e.name = m.name /\ e.kind = "file" /\ e.exec /\ e.err = "none"
    IN  /\ \A i \in 1..Len(Mods) : FromFile(Mods[i])
        /\ \A i \in 1..Len(last.found) : FromFile(last.found[i])

OnlyExecutableMatchingFilesWitness ==
    /\ Done
    /\ Len(Mods) > 0
    /\ \E k \in 1..Len(PATH) :
            /\ File(AwServer, FALSE) \in DirEntries(PATH[k])
            /\ File(AwQt, TRUE) \in DirEntries(PATH[k])
            /\ \A i \in 1..Len(Mods) : ~Under(Mods[i].path, PATH[k])


\* C14: a call of autostart with an empty list returns at once: it reports
\* that nothing was requested, makes no start call and no spawn, and leaves
\* every Module, running or not, and every child process as it was.
EmptyAutostartIsNoOp ==
    [][(Len(to_autostart) = 0 /\ auto.pc = "idle" /\ auto'.pc # "idle") =>
            /\ auto'.pc = "done"
            /\ auto'.issued = <<>>
            /\ last'.op = "autostart"
            /\ last'.reports = {"no_autostart"}
            /\ last'.spawned = <<>> /\ ~last'.signalled /\ last'.threw = "none"
            /\ modules' = modules
            /\ spawns' = spawns /\ orphans' = orphans /\ uncaught' = uncaught]_vars

EmptyAutostartIsNoOpWitness ==
    /\ Len(to_autostart) = 0
    /\ auto.pc = "done"
    /\ last.op = "autostart"
    /\ \E i, j \in 1..Len(Mods) : IsAlive(Mods[i]) /\ Mods[j].process = <<>>


\* C15: whatever the number of init() calls and however they overlap, at most
\* one call goes on to discovery and assigns this.modules; every other call
\* is refused with a reported error.
InitOnlyOnce ==
    /\ Cardinality(Discovering) <= 1
    /\ \A c \in InitCalls : inits[c].pc # "idle" =>
            (c \in Discovering \/ inits[c].pc = "refused")
    /\ (last.op = "init" /\ inits[last.mod].pc = "refused") => "init_once" \in last.reports


\* the scan of `dir` meets a filesystem error other than ENOENT: readdir is
\* refused, or fs.stat of a matching entry is
FailsOtherwise(dir) ==
    \/ DirStatus(dir) \notin {"ok", "ENOENT"}
    \/ /\ DirStatus(dir) = "ok"
       /\ \E e \in DirEntries(dir) : MatchesPattern(e.name) /\ e.err \notin {"none", "ENOENT"}
       /\ \A e \in DirEntries(dir) : MatchesPattern(e.name) => e.err # "ENOENT"

\* C16: the scan of a directory that fails with a filesystem error other than
\* non-existence logs the error, fulfils and contributes no Module, and the
\* discovery pass is not rejected by it.
FailedDirectoryIsEmpty ==
    /\ (last.op \in {"bundled", "scan"} /\ FailsOtherwise(last.dir)) =>
            /\ last.threw = "none"
            /\ "discovery_error" \in last.reports
            /\ last.found = <<>>
    /\ \A c \in InitCalls : inits[c].pc # "rejected"
    /\ Done => \A i \in 1..Len(Mods) :
            ~FailsOtherwise(Dirname(Mods[i].path))


\* the directories of the filesystem at and below root
Tree(root) == {dir \in DOMAIN fs : dir = root \/ Under(dir, root)}

\* those of them a scan of root reaches: each step down from root is an entry
\* that is a directory and whose own name matches the pattern
Walked(root) ==
    {dir \in Tree(root) : \A k \in (Len(root) + 1)..Len(dir) :
        /\ MatchesPattern(dir[k])
        /\ \E e \in DirEntries(SubSeq(dir, 1, k - 1)) :
                e.name = dir[k] /\ e.kind = "dir" /\ e.err = "none"}

\* the registry holds a bundled Module for every matching executable of dirs
BundledEmitted(dirs) ==
    \A dir \in dirs : \A name \in Executables(dir) :
        \E i \in Named("bundled", name) : Mods[i].path = Append(dir, name)

\* C17, as stated: when nothing under the bundle root fails to list or stat,
\* every executable regular file matching the pattern, at any depth under
\* the bundle root, is emitted as a bundled Module.
BundledAtAnyDepth ==
    (Done /\ \A dir \in Tree(bundlepath) : Clean(dir)) => BundledEmitted(Tree(bundlepath))

\* C17, amended: when nothing the scan reaches fails to list or stat, every
\* executable regular file matching the pattern, in the bundle root or in a
\* chain of subdirectories whose own names match the pattern, is emitted as
\* a bundled Module.
BundledThroughMatchingDirs ==
    (Done /\ \A dir \in Walked(bundlepath) : Clean(dir)) => BundledEmitted(Walked(bundlepath))

BundledThroughMatchingDirsWitness ==
    /\ Done
    /\ \A dir \in Walked(bundlepath) : Clean(dir)
    /\ \E i \in 1..Len(Mods) :
            /\ Mods[i].type = "bundled"
            /\ Len(Mods[i].path) = Len(bundlepath) + 2
            /\ Mods[i].name \notin Executables(bundlepath)


\* C18: toggle() never throws; on a Module whose child process is alive it
\* signals the process, and on any other Module, a freshly discovered one
\* included, it calls spawn, after which the Module is running when the
\* spawn succeeded.
ToggleStartsWhenNotRunning ==
    last.op = "Module.toggle" =>
        /\ last.threw = "none"
        /\ last.wasAlive => last.signalled
        /\ ~last.wasAlive =>
                /\ last.spawned # <<>>
                /\ last.outcome = "ok" => IsAlive(Mods[last.mod])


\* C19: after any sequence of start, stop, toggle and autostart calls, every
\* live child process is the one its Module's handle refers to, so that a
\* Module has at most one: no spawn is made for a Module whose process is
\* alive, and no live process is left without a handle.
OneProcessPerModule ==
    /\ orphans = 0
    /\ last.spawned # <<>> => ~last.wasAlive


\* the start calls of auto.issued made by the first batch of autostart
FirstBatch == 1..(IF auto.pc = "A" THEN Len(auto.issued) ELSE auto.began)

\* C20: autostart splits its list in two groups that are disjoint and cover
\* it: the start call of an entry is made by the first batch if and only if
\* the entry contains 'aw-server', no entry gets two start calls, and once
\* autostart has returned every entry has had one.
StartedOncePerEntry ==
    /\ \A j, k \in 1..Len(auto.issued) : auto.issued[j] = auto.issued[k] => j = k
    /\ \A k \in 1..Len(auto.issued) :
            k \in FirstBatch <=> \E t \in 1..Len(to_autostart[auto.issued[k]]) :
                                    to_autostart[auto.issued[k]][t] = "aw-server"
    /\ auto.pc = "done" => (Issued = Positions /\ Len(auto.issued) = Len(to_autostart))

StartedOncePerEntryWitness ==
    /\ auto.pc = "done"
    /\ Len(auto.issued) >= 3
    /\ \E p, q \in Positions :
            p < q /\ ~IncludesAwServer(to_autostart[p]) /\ IncludesAwServer(to_autostart[q])
    /\ \E p, q \in Positions :
            p < q /\ IncludesAwServer(to_autostart[p]) /\ ~IncludesAwServer(to_autostart[q])

=============================================================================
